---- MODULE Spec2Model ----
(***************************************************************************)
(* Model of scripts/clip_interrogator_ext.py: the process-wide engine      *)
(* singleton `ci`, the handlers load, unload, image_analysis and           *)
(* image_to_prompt, and the host job tracker calls made by image_to_prompt.*)
(* Each handler is split at its calls into the provider library and the    *)
(* host runtime; every such call either returns or raises.                 *)
(***************************************************************************)
EXTENDS Integers, Sequences, FiniteSets, TLC

\* ------------------------------------------------------------------ bounds
MaxModels == 2
Models == 1..MaxModels

\* ------------------------------------------------------- program constants
VramThresholdGiB == 12

Threads == {1, 2}
Modes == {"best", "classic", "fast", "negative"}
\* a mode value outside the four the dispatch knows
OtherMode == "other"
\* total_memory values of the device, in GiB
VramSizes == {8, 16}

\* exception classes the provider, the host or PIL can raise;
\* torch.cuda.OutOfMemoryError is a subclass of RuntimeError
ExcTypes == {"OutOfMemoryError", "RuntimeError", "ValueError"}
IsOutOfMemoryError(e) == e = "OutOfMemoryError"
IsRuntimeError(e) == e \in {"OutOfMemoryError", "RuntimeError"}

\* the value of `ci` before the first construction
None == [id |-> 0, name |-> 0, weights |-> 0, low_vram |-> FALSE,
         blip_offloaded |-> FALSE, clip_offloaded |-> FALSE]
NoWeights == 0
\* the local `prompt` before any assignment
Unbound == <<>>
NoExc == [exc |-> "none", at |-> "none"]
NoResult == [kind |-> "none", val |-> <<>>]

VARIABLES
  host,     \* shared.cmd_opts flags and the device properties
  job,      \* shared.state.job
  ci,       \* the module global `ci`
  created,  \* number of Interrogator instances constructed so far
  pc,       \* per handler thread: position in the running handler
  caller,   \* per thread: the handler that is running ("prompt", "analysis")
  mode,     \* per thread: argument `mode`
  model,    \* per thread: argument `clip_model_name`
  prompt,   \* per thread: local `prompt` of image_to_prompt
  result,   \* per thread: outcome of the last handler call
  begun,    \* per thread: shared.state.begin() calls of the current request
  ended,    \* per thread: shared.state.end() calls of the current request
  trace,    \* per thread: the calls the current request has completed
  raised    \* per thread: the exception raised in the current request

vars == <<host, job, ci, created, pc, caller, mode, model, prompt, result,
          begun, ended, trace, raised>>

\* ----------------------------------------------------------- pure helpers

\* f"Exception {type(e)}"
TypeRepr(e) == <<"<class '", e, "'>">>
ExceptionString(e) == <<"Exception ">> \o TypeRepr(e)
OutOfVram == <<"Ran out of VRAM">>
\* the string a provider routine returns for a mode
Generated(m) == <<"generated", m>>

\* the except clauses of image_to_prompt, first match wins
HandlerRuntimeFirst(e) ==
  IF IsRuntimeError(e) THEN [caught |-> TRUE, prompt |-> ExceptionString(e)]
  ELSE IF IsOutOfMemoryError(e) THEN [caught |-> TRUE, prompt |-> OutOfVram]
  ELSE [caught |-> FALSE, prompt |-> Unbound]

HandlerOomOnly(e) ==
  IF IsOutOfMemoryError(e) THEN [caught |-> TRUE, prompt |-> OutOfVram]
  ELSE [caught |-> FALSE, prompt |-> Unbound]

Handler(e) ==
  IF IsOutOfMemoryError(e) THEN [caught |-> TRUE, prompt |-> OutOfVram]
  ELSE IF IsRuntimeError(e) THEN [caught |-> TRUE, prompt |-> ExceptionString(e)]
  ELSE [caught |-> FALSE, prompt |-> Unbound]

\* shared.cmd_opts.lowvram or shared.cmd_opts.medvram, as tested by image_to_prompt
OffloadWantedLowOnly == host.lowvram

OffloadWanted == host.lowvram \/ host.medvram

\* the low_vram decision of load()
LowVram ==
  LET flag == host.lowvram \/ host.medvram
  IN IF ~flag /\ host.cuda
       THEN host.vram < VramThresholdGiB
       ELSE flag

\* the statements of image_to_prompt that run inside its try block
InTryOutsideLoad(t) ==
  caller[t] = "prompt" /\ pc[t] \notin {"l_construct", "l_reload"}

InTry(t) == caller[t] = "prompt"

\* unload() applied to the global; nothing in this file clears the two flags
\* again (the provider library does that on its own account)
UnloadEngineToggle(e) ==
  IF e # None
    THEN [e EXCEPT !.blip_offloaded = ~e.blip_offloaded,
                   !.clip_offloaded = ~e.clip_offloaded]
    ELSE e

UnloadEngine(e) ==
  IF e # None
    THEN [e EXCEPT !.blip_offloaded = TRUE, !.clip_offloaded = TRUE]
    ELSE e

Append1(t, ev) == trace' = [trace EXCEPT ![t] = Append(@, ev)]

\* an exception e leaves the call made at `site`
Raise(t, e, site) ==
  /\ raised' = [raised EXCEPT ![t] = [exc |-> e, at |-> site]]
  /\ IF InTry(t) /\ Handler(e).caught
       THEN /\ prompt' = [prompt EXCEPT ![t] = Handler(e).prompt]
            /\ pc' = [pc EXCEPT ![t] = "p_end"]
            /\ UNCHANGED result
       ELSE /\ result' = [result EXCEPT ![t] = [kind |-> "raised", val |-> <<e>>]]
            /\ pc' = [pc EXCEPT ![t] = "done"]
            /\ UNCHANGED prompt

\* ------------------------------------------------------------------- Init
Init ==
  /\ host \in [lowvram : BOOLEAN, medvram : BOOLEAN, cuda : BOOLEAN, vram : VramSizes]
  /\ job = ""
  /\ ci = None
  /\ created = 0
  /\ pc = [t \in Threads |-> "idle"]
  /\ caller = [t \in Threads |-> "none"]
  /\ mode = [t \in Threads |-> "best"]
  /\ model = [t \in Threads |-> 1]
  /\ prompt = [t \in Threads |-> Unbound]
  /\ result = [t \in Threads |-> NoResult]
  /\ begun = [t \in Threads |-> 0]
  /\ ended = [t \in Threads |-> 0]
  /\ trace = [t \in Threads |-> <<>>]
  /\ raised = [t \in Threads |-> NoExc]

\* ------------------------------------------------------------------ load
\* line 16: if ci is None
LoadCheck(t) ==
  /\ pc[t] = "l_check"
  /\ pc' = [pc EXCEPT ![t] = IF ci = None THEN "l_construct" ELSE "l_cmp"]
  /\ UNCHANGED <<host, job, ci, created, caller, mode, model, prompt, result,
                 begun, ended, trace, raised>>

\* lines 17-31: Config(...), apply_low_vram_defaults, ci = Interrogator(config)
LoadConstruct(t) ==
  /\ pc[t] = "l_construct"
  /\ \/ /\ ci' = [id |-> created + 1, name |-> model[t], weights |-> model[t],
                  low_vram |-> LowVram,
                  blip_offloaded |-> FALSE, clip_offloaded |-> FALSE]
        /\ created' = created + 1
        /\ pc' = [pc EXCEPT ![t] = "l_cmp"]
        /\ Append1(t, "construct")
        /\ UNCHANGED <<prompt, result, raised>>
     \/ /\ \E e \in ExcTypes : Raise(t, e, "construct")
        /\ UNCHANGED <<ci, created, trace>>
  /\ UNCHANGED <<host, job, caller, mode, model, begun, ended>>

\* the caller's statement after load() returns
AfterLoad(t) == IF caller[t] = "prompt" THEN "p_convert" ELSE "a_convert"

\* lines 32-33: the comparison and the assignment of the new name
LoadCompareRecreate(t) ==
  /\ pc[t] = "l_cmp"
  /\ IF model[t] # ci.name
       THEN /\ ci' = [ci EXCEPT !.id = created + 1, !.name = model[t]]
            /\ created' = created + 1
            /\ pc' = [pc EXCEPT ![t] = "l_reload"]
            /\ UNCHANGED trace
       ELSE /\ pc' = [pc EXCEPT ![t] = AfterLoad(t)]
            /\ Append1(t, "loaded")
            /\ UNCHANGED <<ci, created>>
  /\ UNCHANGED <<host, job, caller, mode, model, prompt, result,
                 begun, ended, raised>>

LoadCompareSerialized(t) ==
  /\ pc[t] = "l_cmp"
  /\ \A u \in Threads \ {t} : pc[u] \notin {"p_infer", "a_features", "a_rank"}
  /\ IF model[t] # ci.name
       THEN /\ ci' = [ci EXCEPT !.name = model[t]]
            /\ pc' = [pc EXCEPT ![t] = "l_reload"]
            /\ UNCHANGED trace
       ELSE /\ pc' = [pc EXCEPT ![t] = AfterLoad(t)]
            /\ Append1(t, "loaded")
            /\ UNCHANGED ci
  /\ UNCHANGED <<host, job, created, caller, mode, model, prompt, result,
                 begun, ended, raised>>

LoadCompare(t) ==
  /\ pc[t] = "l_cmp"
  /\ IF model[t] # ci.name
       THEN /\ ci' = [ci EXCEPT !.name = model[t]]
            /\ pc' = [pc EXCEPT ![t] = "l_reload"]
            /\ UNCHANGED trace
       ELSE /\ pc' = [pc EXCEPT ![t] = AfterLoad(t)]
            /\ Append1(t, "loaded")
            /\ UNCHANGED ci
  /\ UNCHANGED <<host, job, created, caller, mode, model, prompt, result,
                 begun, ended, raised>>

\* line 34: ci.load_clip_model(), which loads the weights config names;
\* when it raises, the old weights may or may not have been dropped
LoadReload(t) ==
  /\ pc[t] = "l_reload"
  /\ \/ /\ ci' = [ci EXCEPT !.weights = ci.name]
        /\ pc' = [pc EXCEPT ![t] = AfterLoad(t)]
        /\ trace' = [trace EXCEPT ![t] = @ \o <<"reload", "loaded">>]
        /\ UNCHANGED <<prompt, result, raised>>
     \/ /\ \E w \in {ci.weights, NoWeights} : ci' = [ci EXCEPT !.weights = w]
        /\ \E e \in ExcTypes : Raise(t, e, "reload")
        /\ UNCHANGED trace
  /\ UNCHANGED <<host, job, created, caller, mode, model, begun, ended>>

\* ---------------------------------------------------------------- unload
\* lines 36-44, called from the Unload button
Unload(t) ==
  /\ pc[t] = "idle"
  /\ ci' = UnloadEngine(ci)
  /\ caller' = [caller EXCEPT ![t] = "unload"]
  /\ pc' = [pc EXCEPT ![t] = "done"]
  /\ result' = [result EXCEPT ![t] =
                  [kind |-> "unloaded",
                   val |-> IF ci # None /\ ci.blip_offloaded /\ ci.clip_offloaded
                             THEN <<"again">> ELSE <<"first">>]]
  /\ UNCHANGED <<host, job, created, mode, model, prompt, begun, ended, trace, raised>>

\* -------------------------------------------------------- image_analysis
\* line 49-50: entry, load(clip_model_name)
AnalysisStart(t) ==
  /\ pc[t] = "idle"
  /\ \E m \in Models : model' = [model EXCEPT ![t] = m]
  /\ caller' = [caller EXCEPT ![t] = "analysis"]
  /\ pc' = [pc EXCEPT ![t] = "l_check"]
  /\ UNCHANGED <<host, job, ci, created, mode, prompt, result, begun, ended,
                 trace, raised>>

\* line 52: image.convert('RGB')
AnalysisConvert(t) ==
  /\ pc[t] = "a_convert"
  /\ \/ /\ pc' = [pc EXCEPT ![t] = "a_features"]
        /\ UNCHANGED <<prompt, result, raised>>
     \/ \E e \in ExcTypes : Raise(t, e, "convert")
  /\ UNCHANGED <<host, job, ci, created, caller, mode, model, begun, ended, trace>>

\* line 53: ci.image_to_features(image)
AnalysisFeatures(t) ==
  /\ pc[t] = "a_features"
  /\ \/ /\ pc' = [pc EXCEPT ![t] = "a_rank"]
        /\ UNCHANGED <<prompt, result, raised>>
     \/ \E e \in ExcTypes : Raise(t, e, "features")
  /\ UNCHANGED <<host, job, ci, created, caller, mode, model, begun, ended, trace>>

\* lines 55-67: the five rank and similarities calls, and the return
AnalysisRank(t) ==
  /\ pc[t] = "a_rank"
  /\ \/ /\ pc' = [pc EXCEPT ![t] = "done"]
        /\ result' = [result EXCEPT ![t] = [kind |-> "ranks", val |-> <<>>]]
        /\ UNCHANGED <<prompt, raised>>
     \/ \E e \in ExcTypes : Raise(t, e, "rank")
  /\ UNCHANGED <<host, job, ci, created, caller, mode, model, begun, ended, trace>>

\* ------------------------------------------------------- image_to_prompt
\* lines 69-71: shared.state.begin(); shared.state.job = 'interrogate'
PromptStart(t) ==
  /\ pc[t] = "idle"
  /\ \E m \in Models : model' = [model EXCEPT ![t] = m]
  /\ \E md \in Modes \cup {OtherMode} : mode' = [mode EXCEPT ![t] = md]
  /\ caller' = [caller EXCEPT ![t] = "prompt"]
  /\ pc' = [pc EXCEPT ![t] = "p_try"]
  /\ job' = "interrogate"
  /\ begun' = [begun EXCEPT ![t] = @ + 1]
  /\ trace' = [trace EXCEPT ![t] = <<"begin">>]
  /\ UNCHANGED <<host, ci, created, prompt, result, ended, raised>>

\* line 74 false: the offload is skipped and load() is entered (line 78)
PromptSkipOffload(t) ==
  /\ pc[t] = "p_try"
  /\ ~OffloadWanted
  /\ pc' = [pc EXCEPT ![t] = "l_check"]
  /\ UNCHANGED <<host, job, ci, created, caller, mode, model, prompt, result,
                 begun, ended, trace, raised>>

\* lines 74-75: lowvram.send_everything_to_cpu()
PromptOffload(t) ==
  /\ pc[t] = "p_try"
  /\ OffloadWanted
  /\ \/ /\ pc' = [pc EXCEPT ![t] = "p_gc"]
        /\ Append1(t, "offload")
        /\ UNCHANGED <<prompt, result, raised>>
     \/ /\ \E e \in ExcTypes : Raise(t, e, "offload")
        /\ UNCHANGED trace
  /\ UNCHANGED <<host, job, ci, created, caller, mode, model, begun, ended>>

\* line 76: devices.torch_gc(), then load() is entered (line 78)
PromptGc(t) ==
  /\ pc[t] = "p_gc"
  /\ \/ /\ pc' = [pc EXCEPT ![t] = "l_check"]
        /\ Append1(t, "gc")
        /\ UNCHANGED <<prompt, result, raised>>
     \/ /\ \E e \in ExcTypes : Raise(t, e, "gc")
        /\ UNCHANGED trace
  /\ UNCHANGED <<host, job, ci, created, caller, mode, model, begun, ended>>

\* line 80: image.convert('RGB')
PromptConvert(t) ==
  /\ pc[t] = "p_convert"
  /\ \/ /\ pc' = [pc EXCEPT ![t] = "p_dispatch"]
        /\ UNCHANGED <<prompt, result, raised>>
     \/ \E e \in ExcTypes : Raise(t, e, "convert")
  /\ UNCHANGED <<host, job, ci, created, caller, mode, model, begun, ended, trace>>

\* lines 82-89: the if/elif chain; a mode that matches no branch falls through
PromptDispatch(t) ==
  /\ pc[t] = "p_dispatch"
  /\ pc' = [pc EXCEPT ![t] = IF mode[t] \in Modes THEN "p_infer" ELSE "p_end"]
  /\ UNCHANGED <<host, job, ci, created, caller, mode, model, prompt, result,
                 begun, ended, trace, raised>>

\* lines 83, 85, 87, 89: the provider routine returns the prompt or raises
PromptInfer(t) ==
  /\ pc[t] = "p_infer"
  /\ \/ /\ prompt' = [prompt EXCEPT ![t] = Generated(mode[t])]
        /\ pc' = [pc EXCEPT ![t] = "p_end"]
        /\ Append1(t, "infer")
        /\ UNCHANGED <<result, raised>>
     \/ /\ \E e \in ExcTypes : Raise(t, e, "infer")
        /\ UNCHANGED trace
  /\ UNCHANGED <<host, job, ci, created, caller, mode, model, begun, ended>>

\* line 97: shared.state.end()
PromptEnd(t) ==
  /\ pc[t] = "p_end"
  /\ ended' = [ended EXCEPT ![t] = @ + 1]
  /\ Append1(t, "end")
  /\ pc' = [pc EXCEPT ![t] = "p_return"]
  /\ UNCHANGED <<host, job, ci, created, caller, mode, model, prompt, result,
                 begun, raised>>

\* line 98: return prompt; reading an unassigned local raises UnboundLocalError
PromptReturn(t) ==
  /\ pc[t] = "p_return"
  /\ pc' = [pc EXCEPT ![t] = "done"]
  /\ result' = [result EXCEPT ![t] =
                  IF prompt[t] = Unbound
                    THEN [kind |-> "raised", val |-> <<"UnboundLocalError">>]
                    ELSE [kind |-> "returned", val |-> prompt[t]]]
  /\ UNCHANGED <<host, job, ci, created, caller, mode, model, prompt,
                 begun, ended, trace, raised>>

\* lines 111, 112, 126: the handler has handed its outcome to the UI framework
\* and its locals are gone
Finish(t) ==
  /\ pc[t] = "done"
  /\ pc' = [pc EXCEPT ![t] = "idle"]
  /\ caller' = [caller EXCEPT ![t] = "none"]
  /\ mode' = [mode EXCEPT ![t] = "best"]
  /\ model' = [model EXCEPT ![t] = 1]
  /\ prompt' = [prompt EXCEPT ![t] = Unbound]
  /\ result' = [result EXCEPT ![t] = NoResult]
  /\ begun' = [begun EXCEPT ![t] = 0]
  /\ ended' = [ended EXCEPT ![t] = 0]
  /\ trace' = [trace EXCEPT ![t] = <<>>]
  /\ raised' = [raised EXCEPT ![t] = NoExc]
  /\ UNCHANGED <<host, job, ci, created>>

\* ------------------------------------------------------- specifications
LoadStep(t) ==
  \/ LoadCheck(t)
  \/ LoadConstruct(t)
  \/ LoadCompare(t)
  \/ LoadReload(t)

AnalysisStep(t) ==
  \/ AnalysisStart(t)
  \/ AnalysisConvert(t)
  \/ AnalysisFeatures(t)
  \/ AnalysisRank(t)

PromptStep(t) ==
  \/ PromptStart(t)
  \/ PromptSkipOffload(t)
  \/ PromptOffload(t)
  \/ PromptGc(t)
  \/ PromptConvert(t)
  \/ PromptDispatch(t)
  \/ PromptInfer(t)
  \/ PromptEnd(t)
  \/ PromptReturn(t)

\* one handler at a time: any sequence of Generate, Analyze and Unload clicks
Next ==
  \/ LoadStep(1)
  \/ AnalysisStep(1)
  \/ PromptStep(1)
  \/ Unload(1)
  \/ Finish(1)

Spec == Init /\ [][Next]_vars

\* two handlers at a time: Generate clicks served by thread 1 while Analyze
\* clicks are served by thread 2, on a host started without medvram
InitConc ==
  /\ Init
  /\ ~host.medvram /\ ~host.cuda /\ host.vram = 16

NextConc ==
  \/ LoadStep(1)
  \/ PromptStep(1)
  \/ Finish(1)
  \/ LoadStep(2)
  \/ AnalysisStep(2)
  \/ Finish(2)

SpecConc == InitConc /\ [][NextConc]_vars

TypeOK ==
  /\ created \in 0..2
  /\ ci.id \in 0..created
  /\ \A t \in Threads : begun[t] \in 0..1 /\ ended[t] \in 0..1

\* ------------------------------------------------------------ properties
Range(q) == {q[i] : i \in 1..Len(q)}
Returned(t, v) == result[t] = [kind |-> "returned", val |-> v]
Propagated(t, e) == result[t] = [kind |-> "raised", val |-> <<e>>]
Completed(t) == pc[t] = "done"

\* C1: every image_to_prompt call that signalled job-begin has signalled
\* exactly one job-end by the time it leaves, whatever the exit path.
JobBeginMatchedByEnd ==
  \A t \in Threads :
    (Completed(t) /\ caller[t] = "prompt") => (begun[t] = 1 /\ ended[t] = 1)

\* C2: in any sequence of load calls at most one engine is ever constructed;
\* when load(m) returns, the resident engine is the instance made by the
\* first call and its bound model name is m.
OneEngineSwappedInPlace ==
  /\ created <= 1
  /\ ci.id = created
  /\ \A t \in Threads :
       pc[t] \in {"p_convert", "a_convert"} => (ci.id = 1 /\ ci.name = model[t])

\* a load that had to swap the model of the resident engine has returned
SwappedInPlaceReached ==
  /\ pc[1] = "a_convert"
  /\ "reload" \in Range(trace[1])
  /\ "construct" \notin Range(trace[1])
  /\ ci.id = 1 /\ created = 1 /\ ci.name = model[1]

\* C3: image_to_prompt never reaches `return prompt` with `prompt` unassigned.
PromptAssignedAtReturn ==
  \A t \in Threads : pc[t] = "p_return" => prompt[t] # Unbound

\* C4: an out-of-memory error raised during image_to_prompt is not
\* propagated: the call returns exactly "Ran out of VRAM" and the job is ended.
OomReturnsSentinel ==
  \A t \in Threads :
    (Completed(t) /\ caller[t] = "prompt" /\ IsOutOfMemoryError(raised[t].exc))
      => (Returned(t, <<"Ran out of VRAM">>) /\ begun[t] = 1 /\ ended[t] = 1)

\* the provider ran out of memory in interrogate_fast and the call returned
OomInFastReached ==
  /\ Completed(1) /\ caller[1] = "prompt" /\ mode[1] = "fast"
  /\ raised[1] = [exc |-> "OutOfMemoryError", at |-> "infer"]
  /\ Returned(1, <<"Ran out of VRAM">>)

\* C5: unload changes nothing when no engine is resident; on a resident
\* engine it sets both offloaded flags and keeps the instance and its model
\* name; a further unload leaves the state the first one produced.
UnloadIdempotent ==
  [][Unload(1) =>
       /\ (ci = None => ci' = None)
       /\ (ci # None =>
             /\ ci'.id = ci.id /\ ci'.name = ci.name /\ ci'.weights = ci.weights
             /\ ci'.blip_offloaded /\ ci'.clip_offloaded)
       /\ ((ci.blip_offloaded /\ ci.clip_offloaded) => ci' = ci)
       /\ UnloadEngine(ci') = ci'
       /\ result'[1].kind = "unloaded"]_vars

\* unload has been called on a resident engine that was already offloaded
UnloadedTwiceReached ==
  /\ Completed(1)
  /\ result[1] = [kind |-> "unloaded", val |-> <<"again">>]
  /\ ci # None /\ ci.blip_offloaded /\ ci.clip_offloaded

\* C6 as stated: a failure of the construction or the reload always
\* propagates to the caller, from image_analysis and from image_to_prompt.
LoadFailurePropagates ==
  \A t \in Threads :
    (Completed(t) /\ raised[t].at \in {"construct", "reload"})
      => Propagated(t, raised[t].exc)

\* C6 amended: a failure of the construction or the reload propagates from
\* image_analysis; from image_to_prompt it propagates only when it is not a
\* RuntimeError, and otherwise is replaced by the sentinel string of its class
\* and the job is ended.
LoadFailureOutcome ==
  \A t \in Threads :
    (Completed(t) /\ raised[t].at \in {"construct", "reload"})
      => IF caller[t] = "prompt" /\ IsRuntimeError(raised[t].exc)
           THEN /\ result[t].kind = "returned"
                /\ result[t].val = IF IsOutOfMemoryError(raised[t].exc)
                                     THEN <<"Ran out of VRAM">>
                                     ELSE ExceptionString(raised[t].exc)
                /\ ended[t] = 1
           ELSE Propagated(t, raised[t].exc)

\* the construction failed inside image_to_prompt and a sentinel was returned
LoadFailureSubstitutedReached ==
  /\ Completed(1) /\ caller[1] = "prompt"
  /\ raised[1] = [exc |-> "RuntimeError", at |-> "construct"]
  /\ result[1].kind = "returned"

\* C7: a RuntimeError other than out-of-memory raised by the dispatched
\* provider routine is not propagated: the call returns a string that names
\* the exception class, differs from the out-of-memory string, and the job
\* is ended.
RuntimeFailureNamed ==
  \A t \in Threads :
    (/\ Completed(t) /\ caller[t] = "prompt" /\ raised[t].at = "infer"
     /\ IsRuntimeError(raised[t].exc) /\ ~IsOutOfMemoryError(raised[t].exc))
      => /\ result[t].kind = "returned"
         /\ Len(result[t].val) = 4
         /\ result[t].val[1] = "Exception "
         /\ result[t].val[3] = raised[t].exc
         /\ result[t].val # <<"Ran out of VRAM">>
         /\ begun[t] = 1 /\ ended[t] = 1

\* interrogate raised a RuntimeError and the call returned
RuntimeFailureReached ==
  /\ Completed(1) /\ caller[1] = "prompt"
  /\ raised[1] = [exc |-> "RuntimeError", at |-> "infer"]
  /\ result[1].kind = "returned"

\* C8: the calls of one image_to_prompt request happen in the order
\* job-begin, offload, reclamation, construction, reload, inference, job-end;
\* when load is entered, the offload and the reclamation have run if and only
\* if the lowvram or the medvram flag is set, and they never run otherwise.
EventRank(ev) ==
  CASE ev = "begin" -> 0
    [] ev = "offload" -> 1
    [] ev = "gc" -> 2
    [] ev = "construct" -> 3
    [] ev = "reload" -> 4
    [] ev = "loaded" -> 5
    [] ev = "infer" -> 6
    [] ev = "end" -> 7

LoadEntered(t) ==
  \/ pc[t] \in {"l_check", "l_construct", "l_cmp", "l_reload"}
  \/ Range(trace[t]) \cap {"construct", "reload", "loaded"} # {}

SwapNeverExcluded ==
  \A t \in Threads :
    (pc[t] = "l_cmp" /\ model[t] # ci.name) => ENABLED LoadCompare(t)

\* the inference of request 1 is in flight on an engine bound to another
\* name, while the swap started by request 2 is in flight
RaceReached ==
  /\ pc[1] = "p_infer" /\ ci.name # model[1]
  /\ pc[2] = "l_reload" /\ ci.name = model[2] /\ ci.weights # model[2]

\* C10: outside a reload in progress, the model name recorded on the
\* resident engine is the model whose weights are loaded.
NameIdentifiesWeights ==
  (ci # None /\ pc[1] # "l_reload") => ci.weights = ci.name

====
